---------------------------- MODULE Spec2Model ----------------------------
(***************************************************************************)
(* Model of lambda_handler.py: the AWS Lambda handler that registers Adobe *)
(* Analytics Data Feed files in the Glue Data Catalog.                     *)
(*                                                                         *)
(* Every call to a remote service (Glue get_*/create_*, S3 get_object) is  *)
(* one atomic step of an invocation; invocations interleave between calls. *)
(* Strings are sequences of tokens, so that rstrip, os.path.join, strip    *)
(* and split are computed and not assumed.                                 *)
(***************************************************************************)
EXTENDS Integers, Sequences, FiniteSets, TLC

(***************************************************************************)
(* Bounds of the model.                                                    *)
(***************************************************************************)
\* Number of handler invocations started in one behaviour.
MaxRuns == 2
\* Length of the header texts DescriptorSpec draws (before the final newline).
MaxHeaderLen == 3
\* The concurrent Lambda execution environments.
Procs == {1, 2}

(***************************************************************************)
(* Strings.                                                                *)
(***************************************************************************)
\* Mutant: only one trailing token is dropped.
rstrip_once(s, chars) ==
    IF s # <<>> /\ s[Len(s)] \in chars THEN SubSeq(s, 1, Len(s) - 1) ELSE s

\* str.rstrip(chars): drop every trailing token that is in chars.
RECURSIVE rstrip(_, _)
rstrip(s, chars) ==
    IF s # <<>> /\ s[Len(s)] \in chars THEN rstrip(SubSeq(s, 1, Len(s) - 1), chars)
    ELSE s

\* str.lstrip(chars)
RECURSIVE lstrip(_, _)
lstrip(s, chars) ==
    IF s # <<>> /\ s[1] \in chars THEN lstrip(Tail(s), chars)
    ELSE s

\* The characters str.strip() removes when called without argument.
Whitespace == {"\t", "\n", " "}

\* str.strip()
strip(s) == lstrip(rstrip(s, Whitespace), Whitespace)

\* The pieces of s between the occurrences of sep, Python's s.split(sep):
\* acc holds the pieces finished so far followed by the piece being read.
RECURSIVE split_from(_, _, _)
split_from(s, sep, acc) ==
    IF s = <<>> THEN acc
    ELSE IF s[1] = sep THEN split_from(Tail(s), sep, Append(acc, <<>>))
    ELSE split_from(Tail(s), sep,
                    [acc EXCEPT ![Len(acc)] = Append(acc[Len(acc)], s[1])])

split(s, sep) == split_from(s, sep, << <<>> >>)

\* os.path.join(a, b) on POSIX: an absolute b replaces a; otherwise b is
\* appended, after a "/" unless a is empty or already ends with one.
path_join2(a, b) ==
    IF b # <<>> /\ b[1] = "/" THEN b
    ELSE IF a = <<>> \/ a[Len(a)] = "/" THEN a \o b
    ELSE a \o <<"/">> \o b

RECURSIVE os_path_join(_, _)
os_path_join(a, rest) ==
    IF rest = <<>> THEN a
    ELSE os_path_join(path_join2(a, rest[1]), Tail(rest))

(***************************************************************************)
(* Inputs.                                                                 *)
(***************************************************************************)
\* event['reportDate']
Dates == {"2024-01-01", "2024-01-02"}

\* event['reportBase'], with and without trailing separators.
ReportBases ==
    { <<"s3:", "/", "/", "bucket", "/", "feed">>,
      <<"s3:", "/", "/", "bucket", "/", "feed", "/">>,
      <<"s3:", "/", "/", "bucket", "/", "feed", "/", "/">> }

\* event['lookupURI']
LookupURIs ==
    { <<"s3:", "/", "/", "bucket", "/", "lookup">>,
      <<"s3:", "/", "/", "bucket", "/", "lookup", "/">>,
      <<"s3:", "/", "/", "bucket", "/", "lookup", "/", "/">> }

Events == [reportBase : ReportBases, lookupURI : LookupURIs, reportDate : Dates]

\* os.environ['DB_NAME']
DB_NAME == "adobe"

\* generic_lookup_types
generic_lookup_types ==
    << "browser", "browser_type", "color_depth", "connection_type", "country",
       "javascript_version", "languages", "operating_systems", "plugins",
       "resolution", "referrer_type", "search_engines" >>


(***************************************************************************)
(* Object storage.                                                         *)
(***************************************************************************)
\* The tokens of s before the first "/" (all of s when it holds none).
RECURSIVE before_slash(_)
before_slash(s) ==
    IF s = <<>> \/ s[1] = "/" THEN <<>> ELSE <<s[1]>> \o before_slash(Tail(s))

\* urlparse(s3_uri): netloc is what follows "scheme://" up to the next "/",
\* path is the rest.
urlparse(s3_uri) ==
    IF Len(s3_uri) >= 3 /\ s3_uri[2] = "/" /\ s3_uri[3] = "/"
    THEN LET after == SubSeq(s3_uri, 4, Len(s3_uri))
             netloc == before_slash(after)
         IN  [netloc |-> netloc,
              path   |-> SubSeq(after, Len(netloc) + 1, Len(after))]
    ELSE [netloc |-> <<>>, path |-> Tail(s3_uri)]

\* The (Bucket, Key) pair get_s3_file asks S3 for.
get_s3_file_request(s3_uri) ==
    LET url_object == urlparse(s3_uri) IN
    [Bucket |-> url_object.netloc, Key |-> lstrip(url_object.path, {"/"})]

\* header_file of get_headers
header_file(s3_report_base, partition_date) ==
    os_path_join(s3_report_base,
                 << <<"rawtsv">>, <<"column_headers">>, <<"dt=", partition_date>>,
                    <<"column_headers.tsv.gz">> >>)

\* Texts of header objects (what a valid gzip member decompresses and
\* decodes to).
HeaderTexts ==
    { <<"a", "\t", "b", "\n">>,
      <<"a", "\t", "b", "\t", "c", "\n">> }

\* got_text.strip().split("\t") of get_headers
get_headers_parse(got_text) == split(strip(got_text), "\t")

\* The request for the header object of a date under the feed of the model.
HeaderObject(d) ==
    get_s3_file_request(header_file(<<"s3:", "/", "/", "bucket", "/", "feed">>, d))

\* The object stores an invocation can meet, each object a body with its
\* text and whether its bytes are a gzip stream of UTF-8 text: the header of the first date is
\* present, the header of the second date is present with the same or
\* another column list, or absent.
HeaderStores ==
    LET d1 == "2024-01-01"
        d2 == "2024-01-02"
        t1 == <<"a", "\t", "b", "\n">>
    IN  { [o \in {HeaderObject(d1)} |-> [gzip |-> TRUE, text |-> t1]] }
        \cup { [o \in {HeaderObject(d1), HeaderObject(d2)} |->
                   [gzip |-> TRUE, text |-> IF o = HeaderObject(d1) THEN t1 ELSE t2]]
                 : t2 \in HeaderTexts }

(***************************************************************************)
(* Catalog objects.                                                        *)
(***************************************************************************)
\* storage_descriptor(columns, location)
storage_descriptor(columns, location) ==
    [ Columns       |-> columns,
      Location      |-> location,
      InputFormat   |-> "org.apache.hadoop.mapred.TextInputFormat",
      OutputFormat  |-> "org.apache.hadoop.hive.ql.io.HiveIgnoreKeyTextOutputFormat",
      SerdeInfo     |-> [ SerializationLibrary |-> "org.apache.hadoop.hive.serde2.OpenCSVSerde",
                          Parameters |-> [separatorChar |-> "\t"] ],
      BucketColumns |-> <<>>,
      Parameters    |-> <<>> ]

\* Mutant: the columns are collected by name, a repeated name kept once.
RECURSIVE header_columns_by_name(_)
header_columns_by_name(headers) ==
    IF headers = <<>> THEN <<>>
    ELSE LET front == SubSeq(headers, 1, Len(headers) - 1)
             last == headers[Len(headers)]
         IN  IF \E i \in 1..Len(front) : front[i] = last
             THEN header_columns_by_name(front)
             ELSE Append(header_columns_by_name(front), [Type |-> "string", Name |-> last])

\* [{"Type": "string", "Name": name} for name in headers]
header_columns(headers) ==
    [i \in 1..Len(headers) |-> [Type |-> "string", Name |-> headers[i]]]

\* Mutant: the column list of hit_data skips the first header.
hit_data_table_input_skips_first(s3_report_base, headers) ==
    [ Name              |-> "hit_data",
      StorageDescriptor |-> storage_descriptor(
                                header_columns(Tail(headers)),
                                s3_report_base \o <<"/", "rawtsv", "/", "hit_data", "/">>),
      PartitionKeys     |-> << [Name |-> "dt", Type |-> "string"] >>,
      TableType         |-> "EXTERNAL_TABLE",
      Parameters        |-> <<>> ]

\* TableInput of create_glue_table (LastAccessTime, a wall-clock reading the
\* catalog does not key on, is left out).
hit_data_table_input(s3_report_base, headers) ==
    [ Name              |-> "hit_data",
      StorageDescriptor |-> storage_descriptor(
                                header_columns(headers),
                                s3_report_base \o <<"/", "rawtsv", "/", "hit_data", "/">>),
      PartitionKeys     |-> << [Name |-> "dt", Type |-> "string"] >>,
      TableType         |-> "EXTERNAL_TABLE",
      Parameters        |-> <<>> ]

\* Mutant: the lookup tables get the partition key of hit_data.
lookup_table_input_partitioned(s3_lookup_uri, lookup_name) ==
    [ Name              |-> lookup_name,
      StorageDescriptor |-> storage_descriptor(
                                << [Type |-> "string", Name |-> "id"],
                                   [Type |-> "string", Name |-> "value"] >>,
                                s3_lookup_uri \o <<"/", lookup_name, "/">>),
      PartitionKeys     |-> << [Name |-> "dt", Type |-> "string"] >>,
      TableType         |-> "EXTERNAL_TABLE",
      Parameters        |-> <<>> ]

\* TableInput of create_lookup_tables
lookup_table_input(s3_lookup_uri, lookup_name) ==
    [ Name              |-> lookup_name,
      StorageDescriptor |-> storage_descriptor(
                                << [Type |-> "string", Name |-> "id"],
                                   [Type |-> "string", Name |-> "value"] >>,
                                s3_lookup_uri \o <<"/", lookup_name, "/">>),
      PartitionKeys     |-> <<>>,
      TableType         |-> "EXTERNAL_TABLE",
      Parameters        |-> <<>> ]

\* Mutant: the partition is located at the table's prefix, without the date.
partition_input_table_location(s3_report_base, partition_date, headers) ==
    [ Values            |-> <<partition_date>>,
      StorageDescriptor |-> storage_descriptor(
                                header_columns(headers),
                                s3_report_base \o <<"/", "rawtsv", "/", "hit_data", "/">>),
      Parameters        |-> <<>> ]

\* PartitionInput of add_hitdata_partition
partition_input(s3_report_base, partition_date, headers) ==
    [ Values            |-> <<partition_date>>,
      StorageDescriptor |-> storage_descriptor(
                                header_columns(headers),
                                s3_report_base
                                  \o <<"/", "rawtsv", "/", "hit_data", "/", "dt=", partition_date, "/">>),
      Parameters        |-> <<>> ]


(***************************************************************************)
(* State.                                                                  *)
(***************************************************************************)
VARIABLES
    databases,       \* Glue: the DatabaseInput records of the catalog
    tables,          \* Glue: [DatabaseName, TableInput] records
    partitions,      \* Glue: [DatabaseName, TableName, PartitionInput] records
    s3,              \* S3: (Bucket, Key) -> body
    pc,              \* per invocation: the service call it issues next
    s3_report_base,  \* handler local
    lookup_location, \* handler local
    partition_date,  \* handler local
    lookup_index,    \* create_lookup_tables: position in generic_lookup_types
    headers,         \* local of create_glue_table / add_hitdata_partition
    err,             \* the exception the invocation ended with
    calls,           \* history: the service calls of the current invocation
    accepted,        \* history: per identity, the inputs of the creates Glue accepted
    snap,            \* history: the catalog when the current invocation started
    prev,            \* history: how the previous invocation of the environment ended
    inputs,          \* history: the (base, lookup, date) triples invoked so far
    runs,            \* history: invocations started
    concurrency,     \* Lambda: how many invocations may run at the same time
    trace            \* whether calls, snap and inputs are recorded

catalog_vars == <<databases, tables, partitions>>
local_vars == <<s3_report_base, lookup_location, partition_date>>
vars == <<databases, tables, partitions, s3, pc, s3_report_base, lookup_location,
          partition_date, lookup_index, headers, err, calls, accepted, snap,
          prev, inputs, runs, concurrency, trace>>

\* The catalog as one value.
Catalog == [databases |-> databases, tables |-> tables, partitions |-> partitions]

\* Identities of catalog objects.
DbId(name) == <<"database", name>>
TableId(name) == <<"table", name>>
PartitionId(d) == <<"partition", d>>
LookupNames == {generic_lookup_types[i] : i \in 1..Len(generic_lookup_types)}
Identities ==
    {DbId(DB_NAME)} \cup {TableId(n) : n \in LookupNames \cup {"hit_data"}}
                    \cup {PartitionId(d) : d \in Dates}

(***************************************************************************)
(* The services' answers.                                                  *)
(***************************************************************************)
OK == "ok"
\* A failure that is neither not-found nor already-exists.
ServiceFailure == "AccessDeniedException"

\* glue_client.get_database(Name=...)
get_database(cat, name) ==
    IF \E d \in cat.databases : d.Name = name THEN OK ELSE "EntityNotFoundException"

\* glue_client.get_table(DatabaseName=..., Name=...)
get_table(cat, database, table) ==
    IF \E t \in cat.tables : t.DatabaseName = database /\ t.TableInput.Name = table
    THEN OK ELSE "EntityNotFoundException"

\* glue_client.get_partition(DatabaseName=..., TableName=..., PartitionValues=...)
get_partition(cat, database, table, part_values) ==
    IF \E q \in cat.partitions : /\ q.DatabaseName = database
                                 /\ q.TableName = table
                                 /\ q.PartitionInput.Values = part_values
    THEN OK ELSE "EntityNotFoundException"

\* glue_client.create_database(DatabaseInput=...): the answer
create_database(cat, database_input) ==
    IF get_database(cat, database_input.Name) = OK THEN "AlreadyExistsException" ELSE OK

\* Mutant: create_table overwrites instead of rejecting an existing name.
create_table_no_reject(cat, database, table_input) ==
    IF get_database(cat, database) # OK THEN "EntityNotFoundException" ELSE OK

\* glue_client.create_table(DatabaseName=..., TableInput=...): the answer
create_table(cat, database, table_input) ==
    IF get_database(cat, database) # OK THEN "EntityNotFoundException"
    ELSE IF get_table(cat, database, table_input.Name) = OK THEN "AlreadyExistsException"
    ELSE OK

\* glue_client.create_partition(DatabaseName=..., TableName=..., PartitionInput=...)
create_partition(cat, database, table, partition_in) ==
    IF get_table(cat, database, table) # OK THEN "EntityNotFoundException"
    ELSE IF get_partition(cat, database, table, partition_in.Values) = OK
         THEN "AlreadyExistsException"
    ELSE OK

\* s3_client.get_object(Bucket=..., Key=...): the answer
get_object(store, request) ==
    IF request \in DOMAIN store THEN OK ELSE "NoSuchKey"

\* What a call can answer: what the service's state dictates, or a failure
\* outside the program's control.
Answers(genuine) == {genuine, ServiceFailure}


(***************************************************************************)
(* Control flow of the program.                                            *)
(***************************************************************************)
\* Mutant: create_db creates the database without looking at the probe.
create_db_branch_always_create(answer) ==
    IF answer \in {OK, "EntityNotFoundException"} THEN "create" ELSE "raise"

\* try/except of create_db: what follows the answer of get_database.
create_db_branch(answer) ==
    IF answer = OK THEN "return"
    ELSE IF answer = "EntityNotFoundException" THEN "create"
    ELSE "raise"

\* Mutant: does_table_exist catches every exception ("except Exception").
does_table_exist_catch_all(answer) ==
    IF answer = OK THEN "True" ELSE "False"

\* does_table_exist: its result for an answer of get_table.
\* Mutant: a table that answers is still reported absent.
does_table_exist_never_true(answer) ==
    IF answer \in {OK, "EntityNotFoundException"} THEN "False" ELSE "raise"

does_table_exist(answer) ==
    IF answer = OK THEN "True"
    ELSE IF answer = "EntityNotFoundException" THEN "False"
    ELSE "raise"

\* Mutant: does_partition_exist lacks its "return True".
does_partition_exist_no_true(answer) ==
    IF answer \in {OK, "EntityNotFoundException"} THEN "False" ELSE "raise"

\* does_partition_exist: its result for an answer of get_partition.
does_partition_exist(answer) ==
    IF answer = OK THEN "True"
    ELSE IF answer = "EntityNotFoundException" THEN "False"
    ELSE "raise"

\* Mutant: handler ensures hit_data before the database.
handler_body_table_first ==
    <<"create_glue_table", "create_db", "create_lookup_tables", "add_hitdata_partition">>

\* The functions handler calls, in the order of its body (lines 177-180).
handler_body ==
    <<"create_db", "create_glue_table", "create_lookup_tables", "add_hitdata_partition">>

\* The first service call of each function.
first_call(function) ==
    CASE function = "create_db" -> "get_database"
      [] function = "create_glue_table" -> "get_table_hit_data"
      [] function = "create_lookup_tables" -> "get_table_lookup"
      [] function = "add_hitdata_partition" -> "get_partition"

\* Where the invocation goes when a function called by handler returns: the
\* first call of the function after it in the body, or the end.
handler_after(function) ==
    LET k == CHOOSE i \in 1..Len(handler_body) : handler_body[i] = function IN
    IF k < Len(handler_body) THEN first_call(handler_body[k + 1]) ELSE "done"

\* History: one more service call of invocation p, with its answer.
Called(p, op, id, answer) ==
    calls' = IF trace
             THEN [calls EXCEPT ![p] = Append(@, [op |-> op, id |-> id, answer |-> answer])]
             ELSE calls

\* History: Glue accepted a create of identity id with this input.
Accepted(id, input) == accepted' = [accepted EXCEPT ![id] = Append(@, input)]

\* Mutant: handler wraps each function in a try/except that logs and goes on.
Propagate_logged(p, exception) ==
    LET function ==
          CASE pc[p] \in {"get_database", "create_database"} -> "create_db"
            [] pc[p] \in {"get_table_hit_data", "get_headers_table",
                          "create_table_hit_data"} -> "create_glue_table"
            [] pc[p] \in {"get_table_lookup", "create_table_lookup"} -> "create_lookup_tables"
            [] OTHER -> "add_hitdata_partition"
        to == IF function = handler_body[Len(handler_body)] THEN "done"
              ELSE first_call(handler_body[1 + CHOOSE i \in 1..Len(handler_body) :
                                                  handler_body[i] = function])
    IN  /\ pc' = [pc EXCEPT ![p] = to]
        /\ err' = err
        /\ lookup_index' =
             [lookup_index EXCEPT ![p] = IF to = "get_table_lookup" THEN 1 ELSE 0]
        /\ headers' = [headers EXCEPT ![p] = <<>>]

\* An exception no function of the program catches ends the invocation.
Propagate(p, exception) ==
    /\ pc' = [pc EXCEPT ![p] = "error"]
    /\ err' = [err EXCEPT ![p] = exception]
    /\ lookup_index' = [lookup_index EXCEPT ![p] = 0]
    /\ headers' = [headers EXCEPT ![p] = <<>>]

\* The invocation goes on to the call `to`.
Goto(p, to) ==
    /\ pc' = [pc EXCEPT ![p] = to]
    /\ err' = err
    /\ lookup_index' =
         [lookup_index EXCEPT ![p] = IF to = "get_table_lookup" THEN 1 ELSE 0]
    /\ headers' = [headers EXCEPT ![p] = <<>>]

(***************************************************************************)
(* Init.                                                                   *)
(***************************************************************************)
Init ==
    /\ databases = {}
    /\ tables = {}
    /\ partitions = {}
    /\ s3 \in HeaderStores
    /\ pc = [p \in Procs |-> "idle"]
    /\ s3_report_base = [p \in Procs |-> <<>>]
    /\ lookup_location = [p \in Procs |-> <<>>]
    /\ partition_date = [p \in Procs |-> ""]
    /\ lookup_index = [p \in Procs |-> 0]
    /\ headers = [p \in Procs |-> <<>>]
    /\ err = [p \in Procs |-> "none"]
    /\ calls = [p \in Procs |-> <<>>]
    /\ accepted = [id \in Identities |-> <<>>]
    /\ snap = [p \in Procs |-> [databases |-> {}, tables |-> {}, partitions |-> {}]]
    /\ prev = [p \in Procs |-> "idle"]
    /\ inputs = {}
    /\ runs = 0
    /\ concurrency = Cardinality(Procs)
    /\ trace = FALSE

\* One invocation at a time (a concurrency limit of 1), with the history of
\* its calls recorded.
InitSeq ==
    /\ databases = {}
    /\ tables = {}
    /\ partitions = {}
    /\ s3 \in HeaderStores
    /\ pc = [p \in Procs |-> "idle"]
    /\ s3_report_base = [p \in Procs |-> <<>>]
    /\ lookup_location = [p \in Procs |-> <<>>]
    /\ partition_date = [p \in Procs |-> ""]
    /\ lookup_index = [p \in Procs |-> 0]
    /\ headers = [p \in Procs |-> <<>>]
    /\ err = [p \in Procs |-> "none"]
    /\ calls = [p \in Procs |-> <<>>]
    /\ accepted = [id \in Identities |-> <<>>]
    /\ snap = [p \in Procs |-> [databases |-> {}, tables |-> {}, partitions |-> {}]]
    /\ prev = [p \in Procs |-> "idle"]
    /\ inputs = {}
    /\ runs = 0
    /\ concurrency = 1
    /\ trace = TRUE

(***************************************************************************)
(* handler: lines 170-175, the invocation starts.                          *)
(***************************************************************************)
handler(p) ==
    /\ pc[p] \in {"idle", "done", "error"}
    /\ p \in 1..concurrency
    /\ runs < MaxRuns
    /\ \E event \in Events :
         /\ s3_report_base' = [s3_report_base EXCEPT ![p] = rstrip(event.reportBase, {"/"})]
         /\ lookup_location' = [lookup_location EXCEPT ![p] = rstrip(event.lookupURI, {"/"})]
         /\ partition_date' = [partition_date EXCEPT ![p] = event.reportDate]
         /\ inputs' = IF trace
                      THEN inputs \cup { << rstrip(event.reportBase, {"/"}),
                                            rstrip(event.lookupURI, {"/"}),
                                            event.reportDate >> }
                      ELSE inputs
    /\ pc' = [pc EXCEPT ![p] = first_call(handler_body[1])]
    /\ err' = [err EXCEPT ![p] = "none"]
    /\ lookup_index' =
         [lookup_index EXCEPT ![p] = IF handler_body[1] = "create_lookup_tables" THEN 1 ELSE 0]
    /\ headers' = [headers EXCEPT ![p] = <<>>]
    /\ calls' = [calls EXCEPT ![p] = <<>>]
    /\ snap' = IF trace THEN [snap EXCEPT ![p] = Catalog] ELSE snap
    /\ prev' = [prev EXCEPT ![p] = pc[p]]
    /\ runs' = runs + 1
    /\ UNCHANGED <<databases, tables, partitions, s3, accepted, concurrency, trace>>

(***************************************************************************)
(* create_db                                                               *)
(***************************************************************************)
create_db_get_database(p) ==
    /\ pc[p] = "get_database"
    /\ \E answer \in Answers(get_database(Catalog, DB_NAME)) :
         /\ Called(p, "get_database", DbId(DB_NAME), answer)
         /\ LET branch == create_db_branch(answer) IN
            IF branch = "raise" THEN Propagate(p, answer)
            ELSE IF branch = "create" THEN Goto(p, "create_database")
            ELSE Goto(p, handler_after("create_db"))
    /\ UNCHANGED <<databases, tables, partitions, s3, local_vars, accepted, snap,
                   prev, inputs, runs, concurrency, trace>>

create_db_create_database(p) ==
    /\ pc[p] = "create_database"
    /\ LET database_input == [Name |-> DB_NAME] IN
       \E answer \in Answers(create_database(Catalog, database_input)) :
         /\ Called(p, "create_database", DbId(DB_NAME), answer)
         /\ IF answer = OK
            THEN /\ databases' = databases \cup {database_input}
                 /\ Accepted(DbId(DB_NAME), database_input)
                 /\ Goto(p, handler_after("create_db"))
            ELSE /\ UNCHANGED <<databases, accepted>>
                 /\ Propagate(p, answer)
    /\ UNCHANGED <<tables, partitions, s3, local_vars, snap, prev, inputs, runs,
                   concurrency, trace>>


(***************************************************************************)
(* get_headers                                                             *)
(***************************************************************************)
\* The object get_headers reads.
get_headers_request(report_base, date) ==
    get_s3_file_request(header_file(report_base, date))

\* get_headers once get_object has answered: the exception it raises, or
\* the list it returns.
\* Mutant: a missing or undecodable header reads as an empty header list.
get_headers_tolerant(store, answer, report_base, date) ==
    IF answer = "NoSuchKey" THEN [exc |-> "none", value |-> <<>>]
    ELSE IF answer # OK THEN [exc |-> answer, value |-> <<>>]
    ELSE LET body == store[get_headers_request(report_base, date)] IN
         IF ~body.gzip THEN [exc |-> "none", value |-> <<>>]
         ELSE [exc |-> "none", value |-> get_headers_parse(body.text)]

get_headers(store, answer, report_base, date) ==
    IF answer # OK THEN [exc |-> answer, value |-> <<>>]
    ELSE LET body == store[get_headers_request(report_base, date)] IN
         IF ~body.gzip THEN [exc |-> "OSError", value |-> <<>>]
         ELSE [exc |-> "none", value |-> get_headers_parse(body.text)]

\* The step of invocation p that runs get_headers and, when it returns,
\* goes on to the create call `to`.
FetchHeaders(p, to) ==
    LET request == get_headers_request(s3_report_base[p], partition_date[p]) IN
    \E answer \in Answers(get_object(s3, request)) :
      /\ Called(p, "get_object", <<"object", request>>, answer)
      /\ LET got == get_headers(s3, answer, s3_report_base[p], partition_date[p]) IN
         IF got.exc # "none" THEN Propagate(p, got.exc)
         ELSE /\ pc' = [pc EXCEPT ![p] = to]
              /\ headers' = [headers EXCEPT ![p] = got.value]
              /\ UNCHANGED <<err, lookup_index>>

(***************************************************************************)
(* create_glue_table                                                       *)
(***************************************************************************)
create_glue_table_get_table(p) ==
    /\ pc[p] = "get_table_hit_data"
    /\ \E answer \in Answers(get_table(Catalog, DB_NAME, "hit_data")) :
         /\ Called(p, "get_table", TableId("hit_data"), answer)
         /\ LET exists == does_table_exist(answer) IN
            IF exists = "raise" THEN Propagate(p, answer)
            ELSE IF exists = "True" THEN Goto(p, handler_after("create_glue_table"))
            ELSE Goto(p, "get_headers_table")
    /\ UNCHANGED <<databases, tables, partitions, s3, local_vars, accepted, snap,
                   prev, inputs, runs, concurrency, trace>>

create_glue_table_get_headers(p) ==
    /\ pc[p] = "get_headers_table"
    /\ FetchHeaders(p, "create_table_hit_data")
    /\ UNCHANGED <<databases, tables, partitions, s3, local_vars, accepted, snap,
                   prev, inputs, runs, concurrency, trace>>

create_glue_table_create_table(p) ==
    /\ pc[p] = "create_table_hit_data"
    /\ LET table_input == hit_data_table_input(s3_report_base[p], headers[p]) IN
       \E answer \in Answers(create_table(Catalog, DB_NAME, table_input)) :
         /\ Called(p, "create_table", TableId("hit_data"), answer)
         /\ IF answer = OK
            THEN /\ tables' = tables \cup
                       {[DatabaseName |-> DB_NAME, TableInput |-> table_input]}
                 /\ Accepted(TableId("hit_data"), table_input)
                 /\ Goto(p, handler_after("create_glue_table"))
            ELSE /\ UNCHANGED <<tables, accepted>>
                 /\ Propagate(p, answer)
    /\ UNCHANGED <<databases, partitions, s3, local_vars, snap, prev, inputs, runs,
                   concurrency, trace>>

(***************************************************************************)
(* create_lookup_tables                                                    *)
(***************************************************************************)
\* The loop of create_lookup_tables moves to its next name, or returns.
\* Mutant: the loop stops one name before the end of the list.
NextLookup_stops_early(p) ==
    /\ err' = err
    /\ headers' = headers
    /\ IF lookup_index[p] < Len(generic_lookup_types) - 1
       THEN /\ pc' = [pc EXCEPT ![p] = "get_table_lookup"]
            /\ lookup_index' = [lookup_index EXCEPT ![p] = @ + 1]
       ELSE /\ pc' = [pc EXCEPT ![p] = handler_after("create_lookup_tables")]
            /\ lookup_index' = [lookup_index EXCEPT ![p] = 0]

NextLookup(p) ==
    /\ err' = err
    /\ headers' = headers
    /\ IF lookup_index[p] < Len(generic_lookup_types)
       THEN /\ pc' = [pc EXCEPT ![p] = "get_table_lookup"]
            /\ lookup_index' = [lookup_index EXCEPT ![p] = @ + 1]
       ELSE /\ pc' = [pc EXCEPT ![p] = handler_after("create_lookup_tables")]
            /\ lookup_index' = [lookup_index EXCEPT ![p] = 0]

create_lookup_tables_get_table(p) ==
    /\ pc[p] = "get_table_lookup"
    /\ LET lookup_name == generic_lookup_types[lookup_index[p]] IN
       \E answer \in Answers(get_table(Catalog, DB_NAME, lookup_name)) :
         /\ Called(p, "get_table", TableId(lookup_name), answer)
         /\ LET exists == does_table_exist(answer) IN
            IF exists = "raise" THEN Propagate(p, answer)
            ELSE IF exists = "True" THEN NextLookup(p)
            ELSE /\ pc' = [pc EXCEPT ![p] = "create_table_lookup"]
                 /\ UNCHANGED <<err, lookup_index, headers>>
    /\ UNCHANGED <<databases, tables, partitions, s3, local_vars, accepted, snap,
                   prev, inputs, runs, concurrency, trace>>

create_lookup_tables_create_table(p) ==
    /\ pc[p] = "create_table_lookup"
    /\ LET lookup_name == generic_lookup_types[lookup_index[p]]
           table_input == lookup_table_input(lookup_location[p], lookup_name)
       IN
       \E answer \in Answers(create_table(Catalog, DB_NAME, table_input)) :
         /\ Called(p, "create_table", TableId(lookup_name), answer)
         /\ IF answer = OK
            THEN /\ tables' = tables \cup
                       {[DatabaseName |-> DB_NAME, TableInput |-> table_input]}
                 /\ Accepted(TableId(lookup_name), table_input)
                 /\ NextLookup(p)
            ELSE /\ UNCHANGED <<tables, accepted>>
                 /\ Propagate(p, answer)
    /\ UNCHANGED <<databases, partitions, s3, local_vars, snap, prev, inputs, runs,
                   concurrency, trace>>

(***************************************************************************)
(* add_hitdata_partition                                                   *)
(***************************************************************************)
add_hitdata_partition_get_partition(p) ==
    /\ pc[p] = "get_partition"
    /\ \E answer \in Answers(get_partition(Catalog, DB_NAME, "hit_data",
                                           <<partition_date[p]>>)) :
         /\ Called(p, "get_partition", PartitionId(partition_date[p]), answer)
         /\ LET exists == does_partition_exist(answer) IN
            IF exists = "raise" THEN Propagate(p, answer)
            ELSE IF exists = "True" THEN Goto(p, handler_after("add_hitdata_partition"))
            ELSE Goto(p, "get_headers_partition")
    /\ UNCHANGED <<databases, tables, partitions, s3, local_vars, accepted, snap,
                   prev, inputs, runs, concurrency, trace>>

\* Mutant: step 4 does not read the header file again.
add_hitdata_partition_get_headers_skipped(p) ==
    /\ pc[p] = "get_headers_partition"
    /\ pc' = [pc EXCEPT ![p] = "create_partition"]
    /\ UNCHANGED <<databases, tables, partitions, s3, local_vars, accepted, snap,
                   prev, inputs, runs, concurrency, trace, headers, err,
                   lookup_index, calls>>

add_hitdata_partition_get_headers(p) ==
    /\ pc[p] = "get_headers_partition"
    /\ FetchHeaders(p, "create_partition")
    /\ UNCHANGED <<databases, tables, partitions, s3, local_vars, accepted, snap,
                   prev, inputs, runs, concurrency, trace>>

add_hitdata_partition_create_partition(p) ==
    /\ pc[p] = "create_partition"
    /\ LET partition_in == partition_input(s3_report_base[p], partition_date[p], headers[p]) IN
       \E answer \in Answers(create_partition(Catalog, DB_NAME, "hit_data", partition_in)) :
         /\ Called(p, "create_partition", PartitionId(partition_date[p]), answer)
         /\ IF answer = OK
            THEN /\ partitions' = partitions \cup
                       {[DatabaseName |-> DB_NAME, TableName |-> "hit_data",
                         PartitionInput |-> partition_in]}
                 /\ Accepted(PartitionId(partition_date[p]), partition_in)
                 /\ Goto(p, handler_after("add_hitdata_partition"))
            ELSE /\ UNCHANGED <<partitions, accepted>>
                 /\ Propagate(p, answer)
    /\ UNCHANGED <<databases, tables, s3, local_vars, snap, prev, inputs, runs,
                   concurrency, trace>>

(***************************************************************************)
(* Specification.                                                          *)
(***************************************************************************)
Next ==
    \E p \in Procs :
        \/ handler(p)
        \/ create_db_get_database(p)
        \/ create_db_create_database(p)
        \/ create_glue_table_get_table(p)
        \/ create_glue_table_get_headers(p)
        \/ create_glue_table_create_table(p)
        \/ create_lookup_tables_get_table(p)
        \/ create_lookup_tables_create_table(p)
        \/ add_hitdata_partition_get_partition(p)
        \/ add_hitdata_partition_get_headers(p)
        \/ add_hitdata_partition_create_partition(p)

Spec == Init /\ [][Next]_vars

SeqSpec == InitSeq /\ [][Next]_vars

\* Header texts up to MaxHeaderLen tokens, names and tabs in any arrangement,
\* each ended by a newline.
BoundedHeaderTexts ==
    { t \o <<"\n">> : t \in UNION { [1..n -> {"a", "b", "\t"}] : n \in 0..MaxHeaderLen } }

\* One invocation at a time on a feed whose first date has any of the
\* bounded header texts.
InitDescriptor ==
    /\ databases = {}
    /\ tables = {}
    /\ partitions = {}
    /\ s3 \in { [o \in {HeaderObject("2024-01-01")} |-> [gzip |-> TRUE, text |-> t]]
                : t \in BoundedHeaderTexts }
    /\ pc = [p \in Procs |-> "idle"]
    /\ s3_report_base = [p \in Procs |-> <<>>]
    /\ lookup_location = [p \in Procs |-> <<>>]
    /\ partition_date = [p \in Procs |-> ""]
    /\ lookup_index = [p \in Procs |-> 0]
    /\ headers = [p \in Procs |-> <<>>]
    /\ err = [p \in Procs |-> "none"]
    /\ calls = [p \in Procs |-> <<>>]
    /\ accepted = [id \in Identities |-> <<>>]
    /\ snap = [p \in Procs |-> [databases |-> {}, tables |-> {}, partitions |-> {}]]
    /\ prev = [p \in Procs |-> "idle"]
    /\ inputs = {}
    /\ runs = 0
    /\ concurrency = 1
    /\ trace = FALSE

DescriptorSpec == InitDescriptor /\ [][Next]_vars

\* The bucket belongs to the feed's producer, not to the handler: between
\* any two steps a header object may be deleted, or overwritten by bytes
\* that are not gzip.
header_object_deleted ==
    /\ \E o \in DOMAIN s3 : s3' = [x \in DOMAIN s3 \ {o} |-> s3[x]]
    /\ UNCHANGED <<databases, tables, partitions, pc, s3_report_base, lookup_location,
                   partition_date, lookup_index, headers, err, calls, accepted, snap,
                   prev, inputs, runs, concurrency, trace>>

header_object_overwritten ==
    /\ \E o \in DOMAIN s3 : /\ s3[o].gzip
                             /\ s3' = [s3 EXCEPT ![o].gzip = FALSE]
    /\ UNCHANGED <<databases, tables, partitions, pc, s3_report_base, lookup_location,
                   partition_date, lookup_index, headers, err, calls, accepted, snap,
                   prev, inputs, runs, concurrency, trace>>

NextDrift == Next \/ header_object_deleted \/ header_object_overwritten

\* One invocation at a time, its calls recorded, over a bucket whose header
\* objects may go missing or bad.
DriftSpec == InitSeq /\ [][NextDrift]_vars


(***************************************************************************)
(* Vocabulary of the properties.                                           *)
(***************************************************************************)
Range(f) == {f[i] : i \in DOMAIN f}

\* The objects the catalog stores under an identity, as the inputs they
\* were created from.
Stored(cat, id) ==
    IF id[1] = "database" THEN {d \in cat.databases : d.Name = id[2]}
    ELSE IF id[1] = "table"
         THEN {t.TableInput : t \in {u \in cat.tables : u.TableInput.Name = id[2]}}
    ELSE {q.PartitionInput :
            q \in {r \in cat.partitions : r.PartitionInput.Values = <<id[2]>>}}

Exists(cat, id) == Stored(cat, id) # {}

\* The identities an invocation for a date ensures, in the order of handler.
Ensured(date) ==
    <<DbId(DB_NAME), TableId("hit_data")>>
      \o [i \in 1..Len(generic_lookup_types) |-> TableId(generic_lookup_types[i])]
      \o <<PartitionId(date)>>

AllExist(cat, date) == \A id \in Range(Ensured(date)) : Exists(cat, id)

\* The header object of a date is there and decodes.
HeaderPresent(date) ==
    /\ HeaderObject(date) \in DOMAIN s3
    /\ s3[HeaderObject(date)].gzip

\* Errors that come from outside the program's logic: a failing service, a
\* missing or undecodable header object.
ExternalErrors == {ServiceFailure, "NoSuchKey", "OSError"}

Ended(p) == pc[p] \in {"done", "error"}

(***************************************************************************)
(* C1                                                                      *)
(***************************************************************************)
\* C1: an invocation whose create call is rejected with 'already exists'
\* treats the rejection as a no-op: it does not end in error with it.
C1_AlreadyExistsIsBenign ==
    \A p \in Procs : ~(pc[p] = "error" /\ err[p] = "AlreadyExistsException")

(***************************************************************************)
(* C3                                                                      *)
(***************************************************************************)
\* C3: two invocations racing on the empty catalog, the header of each
\* one's date present and no service failing: once both have ended, both have
\* returned normally and all objects of both dates exist.
C3_RaceBothSucceed ==
    ( /\ \A p \in Procs : Ended(p) /\ prev[p] = "idle"
      /\ \A p \in Procs : HeaderPresent(partition_date[p])
      /\ \A p \in Procs : err[p] # ServiceFailure )
    => \A p \in Procs : pc[p] = "done" /\ AllExist(Catalog, partition_date[p])

(***************************************************************************)
(* C4                                                                      *)
(***************************************************************************)
\* C4: for each identity at most one create succeeds, the catalog holds at
\* most one object of the identity, and that object is the input of the one
\* successful create.
C4_OneObjectPerIdentity ==
    \A id \in Identities :
        /\ Len(accepted[id]) <= 1
        /\ Cardinality(Stored(Catalog, id)) <= 1
        /\ Stored(Catalog, id) = Range(accepted[id])

\* Two invocations for dates with different headers raced for hit_data: one
\* create was accepted, the other, which carried another column list, rejected.
C4_Witness ==
    /\ err[1] = "AlreadyExistsException"
    /\ Exists(Catalog, TableId("hit_data"))
    /\ ~Exists(Catalog, TableId(generic_lookup_types[1]))
    /\ HeaderPresent(partition_date[1])
    /\ \A t \in Stored(Catalog, TableId("hit_data")) :
          t.StorageDescriptor.Columns #
            header_columns(get_headers_parse(s3[HeaderObject(partition_date[1])].text))


(***************************************************************************)
(* Vocabulary of the call histories (recorded under SeqSpec).              *)
(***************************************************************************)
IsCreate(c) == c.op \in {"create_database", "create_table", "create_partition"}
IsProbe(c) == c.op \in {"get_database", "get_table", "get_partition"}
IsFetch(c) == c.op = "get_object"

\* The identities the create calls of a history were issued for, in order.
CreateIds(cs) ==
    LET creates == SelectSeq(cs, IsCreate) IN
    [i \in 1..Len(creates) |-> creates[i].id]

IsPrefix(a, b) == Len(a) <= Len(b) /\ SubSeq(b, 1, Len(a)) = a

\* The identities of Ensured(date) a catalog lacks, in order.
Missing(cat, date) ==
    LET absent(id) == ~Exists(cat, id) IN SelectSeq(Ensured(date), absent)

\* The header list stored for a date under a feed.
HeadersOf(report_base, date) ==
    get_headers_parse(s3[get_headers_request(report_base, date)].text)

\* The catalog of exactly the objects of one input.
FullCatalog(report_base, lookup_uri, date) ==
    [ databases  |-> { [Name |-> DB_NAME] },
      tables     |-> { [DatabaseName |-> DB_NAME,
                        TableInput |-> hit_data_table_input(report_base,
                                           HeadersOf(report_base, date))] }
                     \cup { [DatabaseName |-> DB_NAME,
                             TableInput |-> lookup_table_input(lookup_uri, n)]
                            : n \in LookupNames },
      partitions |-> { [DatabaseName |-> DB_NAME, TableName |-> "hit_data",
                        PartitionInput |-> partition_input(report_base, date,
                                               HeadersOf(report_base, date))] } ]

EmptyCatalog == [databases |-> {}, tables |-> {}, partitions |-> {}]

\* Every invocation so far had the same input.
SameInputThroughout == Cardinality(inputs) = 1

(***************************************************************************)
(* C2                                                                      *)
(***************************************************************************)
\* C2: a run that follows a normally returned run with identical input, no
\* service failing, issues no create call, leaves the catalog as it found it
\* and does not end in error.
C2_Idempotent ==
    \A p \in Procs :
        (prev[p] = "done" /\ SameInputThroughout /\ err[p] # ServiceFailure)
        => /\ CreateIds(calls[p]) = <<>>
           /\ Catalog = snap[p]
           /\ pc[p] # "error"

\* The second of two runs with the same input has returned.
C2_Witness ==
    /\ prev[1] = "done" /\ pc[1] = "done" /\ SameInputThroughout
    /\ Len(calls[1]) = Len(Ensured(partition_date[1]))

(***************************************************************************)
(* C5                                                                      *)
(***************************************************************************)
\* C5: a run that follows an aborted run with the same input issues create
\* calls only for the objects missing when it started, in order, ends in
\* error only for an external failure, and when it returns the catalog is
\* the one an uninterrupted run on the empty catalog produces.
C5_ConvergesFromPartialState ==
    \A p \in Procs :
        /\ (prev[p] = "idle" /\ pc[p] = "done")
           => Catalog = FullCatalog(s3_report_base[p], lookup_location[p], partition_date[p])
        /\ (prev[p] = "error" /\ SameInputThroughout)
           => /\ IsPrefix(CreateIds(calls[p]), Missing(snap[p], partition_date[p]))
              /\ pc[p] = "error" => err[p] \in ExternalErrors
              /\ pc[p] = "done" =>
                   /\ CreateIds(calls[p]) = Missing(snap[p], partition_date[p])
                   /\ Catalog = FullCatalog(s3_report_base[p], lookup_location[p],
                                            partition_date[p])

\* A run aborted after hit_data and before the last lookup table; the re-run
\* with the same input has returned.
C5_Witness ==
    /\ prev[1] = "error" /\ pc[1] = "done" /\ SameInputThroughout
    /\ Exists(snap[1], TableId("hit_data"))
    /\ ~Exists(snap[1], TableId(generic_lookup_types[Len(generic_lookup_types)]))
    /\ Exists(snap[1], TableId(generic_lookup_types[1]))


(***************************************************************************)
(* C6                                                                      *)
(***************************************************************************)
\* The call a function issues to create the object its probe asked for.
CreateOf(probe) ==
    CASE probe.op = "get_database" -> "create_database"
      [] probe.op = "get_table" -> "create_table"
      [] probe.op = "get_partition" -> "create_partition"

\* The probes whose function fetches the header before it creates.
NeedsHeaders(probe) ==
    probe.op = "get_partition" \/ probe.id = TableId("hit_data")

\* Call number j of the history is the create call for the object of probe c.
IsCreateFor(cs, j, c) ==
    j \in DOMAIN cs /\ cs[j].op = CreateOf(c) /\ cs[j].id = c.id

\* A probe answered with an error other than not-found: the invocation ends
\* with that error at this call, and has issued no create for the object.
OtherErrorAborts(p) ==
    \A k \in DOMAIN calls[p] :
        LET c == calls[p][k] IN
        (IsProbe(c) /\ c.answer \notin {OK, "EntityNotFoundException"})
        => /\ k = Len(calls[p])
           /\ pc[p] = "error"
           /\ err[p] = c.answer
           /\ \A j \in DOMAIN calls[p] : ~IsCreateFor(calls[p], j, c)

\* C6 as stated: once an invocation has ended, no service having failed in
\* it, every probe answered not-found was followed by a create call for the
\* probed object; and a probe answered with another error ended the
\* invocation with that error and no create.
C6_NotFoundLeadsToCreate ==
    \A p \in Procs :
        /\ (Ended(p) /\ err[p] # ServiceFailure) =>
             \A k \in DOMAIN calls[p] :
                 LET c == calls[p][k] IN
                 (IsProbe(c) /\ c.answer = "EntityNotFoundException")
                 => \E j \in (k + 1)..Len(calls[p]) : IsCreateFor(calls[p], j, c)
        /\ OtherErrorAborts(p)

\* C6 amended: a probe answered not-found puts the invocation on the create
\* path of the probed object: its next call is the create call (database,
\* lookup tables) or the header fetch (hit_data, partition), and after the
\* fetch the create call follows exactly when the fetch returned a header
\* list; a probe answered with another error ends the invocation with that
\* error and no create.
C6_NotFoundEntersCreatePath ==
    \A p \in Procs :
        /\ \A k \in DOMAIN calls[p] :
               LET c == calls[p][k]
                   cs == calls[p]
               IN
               (IsProbe(c) /\ c.answer = "EntityNotFoundException")
               => /\ k = Len(cs) => ~Ended(p)
                  /\ (k < Len(cs) /\ ~NeedsHeaders(c)) => IsCreateFor(cs, k + 1, c)
                  /\ (k < Len(cs) /\ NeedsHeaders(c)) =>
                       /\ IsFetch(cs[k + 1])
                       /\ k + 1 = Len(cs) =>
                            (Ended(p) <=> (err[p] \in ExternalErrors /\ pc[p] = "error"))
                       /\ k + 1 < Len(cs) =>
                            /\ cs[k + 1].answer = OK
                            /\ IsCreateFor(cs, k + 2, c)
        /\ OtherErrorAborts(p)

\* An invocation found hit_data absent, created it, and later ended at a
\* lookup-table probe that answered with a service failure.
C6_Witness ==
    /\ pc[1] = "error"
    /\ \E k \in DOMAIN calls[1] :
          /\ calls[1][k].op = "get_table" /\ calls[1][k].id = TableId("hit_data")
          /\ calls[1][k].answer = "EntityNotFoundException"
          /\ IsCreateFor(calls[1], k + 2, calls[1][k])
    /\ LET last == calls[1][Len(calls[1])] IN
          /\ last.op = "get_table" /\ last.id = TableId(generic_lookup_types[2])
          /\ last.answer = ServiceFailure

(***************************************************************************)
(* C7                                                                      *)
(***************************************************************************)
\* C7: a create call or header fetch that fails with a service failure is
\* the last call of its invocation, which ends in error with that failure;
\* what the invocation found and what it created before stays in the catalog.
C7_FailureAbortsWithoutRollback ==
    \A p \in Procs :
        \A k \in DOMAIN calls[p] :
            LET c == calls[p][k] IN
            ((IsCreate(c) \/ IsFetch(c)) /\ c.answer = ServiceFailure)
            => /\ k = Len(calls[p])
               /\ pc[p] = "error"
               /\ err[p] = ServiceFailure
               /\ snap[p].databases \subseteq databases
               /\ snap[p].tables \subseteq tables
               /\ snap[p].partitions \subseteq partitions
               /\ \A j \in 1..(k - 1) :
                     (IsCreate(calls[p][j]) /\ calls[p][j].answer = OK)
                     => /\ Exists(Catalog, calls[p][j].id)
                        /\ Stored(Catalog, calls[p][j].id) = Range(accepted[calls[p][j].id])
               /\ \A id \in Identities :
                     Exists(Catalog, id) =>
                        \/ Exists(snap[p], id)
                        \/ \E j \in 1..(k - 1) : IsCreate(calls[p][j]) /\ calls[p][j].id = id

\* An invocation created the database and hit_data, then its first
\* lookup-table create failed.
C7_Witness ==
    /\ pc[1] = "error"
    /\ CreateIds(calls[1]) =
         <<DbId(DB_NAME), TableId("hit_data"), TableId(generic_lookup_types[1])>>
    /\ calls[1][Len(calls[1])].answer = ServiceFailure
    /\ Exists(Catalog, TableId("hit_data"))


(***************************************************************************)
(* C8                                                                      *)
(***************************************************************************)
\* The position of an identity in the order of handler for a date.
PositionIn(order, id) == CHOOSE i \in 1..Len(order) : order[i] = id

\* C8: the create calls of an invocation are issued in the order database,
\* hit_data, lookup tables in list order, partition; create_table is issued
\* only with the database present and create_partition only with hit_data
\* present; and the first invocation on the empty catalog, header present and
\* no service failing, returns having created every object itself.
C8_StepOrder ==
    \A p \in Procs :
        LET order == Ensured(partition_date[p])
            created == CreateIds(calls[p])
        IN
        /\ \A i \in DOMAIN created : created[i] \in Range(order)
        /\ \A i, j \in DOMAIN created :
              i < j => PositionIn(order, created[i]) < PositionIn(order, created[j])
        /\ pc[p] \in {"create_table_hit_data", "create_table_lookup"}
              => Exists(Catalog, DbId(DB_NAME))
        /\ pc[p] = "create_partition" => Exists(Catalog, TableId("hit_data"))
        /\ \A k \in DOMAIN calls[p] :
              IsCreate(calls[p][k]) => calls[p][k].answer # "EntityNotFoundException"
        /\ ( /\ prev[p] = "idle" /\ snap[p] = EmptyCatalog
             /\ pc[p] # "idle"
             /\ HeaderPresent(partition_date[p])
             /\ err[p] # ServiceFailure )
           => /\ pc[p] # "error"
              /\ pc[p] = "done" =>
                   /\ created = order
                   /\ \A k \in DOMAIN calls[p] : calls[p][k].answer \in {OK, "EntityNotFoundException"}
                   /\ AllExist(Catalog, partition_date[p])

\* The first invocation, on the empty catalog, has returned after issuing a
\* create call for each of its objects.
C8_Witness ==
    /\ prev[1] = "idle" /\ pc[1] = "done" /\ snap[1] = EmptyCatalog
    /\ Len(CreateIds(calls[1])) = Len(generic_lookup_types) + 3

(***************************************************************************)
(* C9                                                                      *)
(***************************************************************************)
\* The two string columns of a lookup table.
LookupColumns == << [Type |-> "string", Name |-> "id"], [Type |-> "string", Name |-> "value"] >>

\* C9: after a run returned, each of the 12 lookup names is one table
\* without partition keys and with exactly the string columns id, value; a
\* run that follows a returned run issues no create_table for a lookup name.
C9_LookupSetComplete ==
    /\ Len(generic_lookup_types) = 12
    /\ Cardinality(LookupNames) = 12
    /\ \A p \in Procs :
          /\ pc[p] = "done" =>
                \A n \in LookupNames :
                    /\ Cardinality(Stored(Catalog, TableId(n))) = 1
                    /\ \A t \in Stored(Catalog, TableId(n)) :
                          /\ t.PartitionKeys = <<>>
                          /\ t.StorageDescriptor.Columns = LookupColumns
          /\ prev[p] = "done" =>
                \A k \in DOMAIN calls[p] :
                    ~(calls[p][k].op = "create_table" /\ calls[p][k].id[2] \in LookupNames)

\* The run after a returned run has passed all lookup tables and returned.
C9_Witness ==
    /\ prev[1] = "done" /\ pc[1] = "done"
    /\ \E k \in DOMAIN calls[1] :
          /\ calls[1][k].op = "get_table"
          /\ calls[1][k].id = TableId(generic_lookup_types[Len(generic_lookup_types)])

(***************************************************************************)
(* C10                                                                     *)
(***************************************************************************)
\* s holds the tokens of part next to each other.
Contains(s, part) ==
    \E i \in 1..(Len(s) - Len(part) + 1) : SubSeq(s, i, i + Len(part) - 1) = part

PartitionsOf(d) == Stored(Catalog, PartitionId(d))

\* C10: a partition, once in the catalog, is never changed or doubled by a
\* later step of any invocation; a step that adds a partition is the
\* create_partition of an invocation, adds one partition whose values are
\* that invocation's date, and every partition's location holds dt=<its date>.
C10_PartitionIsolation ==
    /\ [][ \A d \in Dates : PartitionsOf(d) # {} => PartitionsOf(d)' = PartitionsOf(d) ]_vars
    /\ [][ partitions' # partitions =>
             \E p \in Procs :
               /\ pc[p] = "create_partition"
               /\ \E q \in partitions' :
                    /\ partitions' = partitions \cup {q}
                    /\ q.PartitionInput.Values = <<partition_date[p]>> ]_vars
    /\ [](\A q \in partitions :
            /\ Len(q.PartitionInput.Values) = 1
            /\ Contains(q.PartitionInput.StorageDescriptor.Location,
                        <<"dt=", q.PartitionInput.Values[1]>>)
            /\ Cardinality(PartitionsOf(q.PartitionInput.Values[1])) = 1)

\* The partitions of two dates exist, the second created by an invocation
\* that started when the first was there.
C10_Witness ==
    /\ \A d \in Dates : PartitionsOf(d) # {}
    /\ \E p \in Procs :
          /\ pc[p] = "done" /\ prev[p] = "done"
          /\ \A q \in Procs \ {p} : pc[q] = "idle"


(***************************************************************************)
(* C11                                                                     *)
(***************************************************************************)
HitData == Stored(Catalog, TableId("hit_data"))

\* The column list the header object of a date yields.
ColumnsOfDate(date) == header_columns(get_headers_parse(s3[HeaderObject(date)].text))

\* C11: the step that puts hit_data into the catalog is the create_table of
\* an invocation and gives it the header list of that invocation's date as
\* columns; once hit_data exists no step of any invocation changes it.
C11_SchemaPinned ==
    /\ [][ (HitData = {} /\ HitData' # {}) =>
             \E p \in Procs :
               /\ pc[p] = "create_table_hit_data"
               /\ pc'[p] # pc[p]
               /\ \A t \in HitData' :
                     t.StorageDescriptor.Columns = ColumnsOfDate(partition_date[p]) ]_vars
    /\ [][ HitData # {} => HitData' = HitData ]_vars

\* hit_data carries the columns of one date while an invocation for a date
\* with another header list has created its partition and returned.
C11_Witness ==
    /\ HitData # {}
    /\ \E p \in Procs :
          /\ pc[p] = "done"
          /\ HeaderPresent(partition_date[p])
          /\ Exists(Catalog, PartitionId(partition_date[p]))
          /\ \A t \in HitData :
                t.StorageDescriptor.Columns # ColumnsOfDate(partition_date[p])


(***************************************************************************)
(* C12                                                                     *)
(***************************************************************************)
\* A storage descriptor has one string column per header of h, named and
\* ordered as h, the tab as serde separator, and both auxiliary fields.
Faithful(descriptor, h) ==
    /\ Len(descriptor.Columns) = Len(h)
    /\ \A i \in 1..Len(h) :
          /\ descriptor.Columns[i].Name = h[i]
          /\ descriptor.Columns[i].Type = "string"
          /\ DOMAIN descriptor.Columns[i] = {"Name", "Type"}
    /\ descriptor.SerdeInfo.Parameters.separatorChar = "\t"
    /\ {"BucketColumns", "Parameters"} \subseteq DOMAIN descriptor
    /\ descriptor.BucketColumns = <<>>
    /\ descriptor.Parameters = <<>>

\* C12: the hit_data table and the partition a step creates are faithful to
\* the header list the invocation holds at that step, whatever list it is;
\* the text "a<TAB>b<TAB>c<NL>" yields the list a, b, c.
C12_SchemaFidelity ==
    /\ [][ \A p \in Procs :
             (pc[p] = "create_table_hit_data" /\ tables' # tables)
             => \E t \in tables' \ tables :
                   /\ tables' = tables \cup {t}
                   /\ Faithful(t.TableInput.StorageDescriptor, headers[p]) ]_vars
    /\ [][ \A p \in Procs :
             (pc[p] = "create_partition" /\ partitions' # partitions)
             => \E q \in partitions' \ partitions :
                   /\ partitions' = partitions \cup {q}
                   /\ Faithful(q.PartitionInput.StorageDescriptor, headers[p]) ]_vars
    /\ [](get_headers_parse(<<"a", "\t", "b", "\t", "c", "\n">>)
            = << <<"a">>, <<"b">>, <<"c">> >>)

\* hit_data and a partition were created from a header list that repeats a
\* name.
C12_Witness ==
    /\ \E t \in HitData :
          /\ Len(t.StorageDescriptor.Columns) = 2
          /\ t.StorageDescriptor.Columns[1] = t.StorageDescriptor.Columns[2]
    /\ \E q \in partitions :
          /\ Len(q.PartitionInput.StorageDescriptor.Columns) = 2
          /\ q.PartitionInput.StorageDescriptor.Columns[1].Name
               = q.PartitionInput.StorageDescriptor.Columns[2].Name


(***************************************************************************)
(* C13                                                                     *)
(***************************************************************************)
\* reportBase and lookupURI of the events without their trailing "/".
StrippedBase == <<"s3:", "/", "/", "bucket", "/", "feed">>
StrippedLookup == <<"s3:", "/", "/", "bucket", "/", "lookup">>

\* C13: whatever trailing "/" the event's URIs carry, the first run on the
\* empty catalog that returns has read the header from
\* B/rawtsv/column_headers/dt=<date>/column_headers.tsv.gz and left hit_data
\* at B/rawtsv/hit_data/ with the one string partition key dt, the partition
\* [<date>] at B/rawtsv/hit_data/dt=<date>/ and each lookup table at L/<name>/.
C13_Layout ==
    \A p \in Procs :
        (prev[p] = "idle" /\ snap[p] = EmptyCatalog /\ pc[p] = "done")
        => LET date == partition_date[p] IN
           /\ \A k \in DOMAIN calls[p] :
                 IsFetch(calls[p][k]) =>
                    calls[p][k].id[2] =
                      [ Bucket |-> <<"bucket">>,
                        Key |-> <<"feed", "/", "rawtsv", "/", "column_headers", "/",
                                  "dt=", date, "/", "column_headers.tsv.gz">> ]
           /\ \E k \in DOMAIN calls[p] : IsFetch(calls[p][k])
           /\ Cardinality(HitData) = 1
           /\ \A t \in HitData :
                 /\ t.StorageDescriptor.Location =
                      StrippedBase \o <<"/", "rawtsv", "/", "hit_data", "/">>
                 /\ t.PartitionKeys = << [Name |-> "dt", Type |-> "string"] >>
           /\ Cardinality(partitions) = 1
           /\ \A q \in partitions :
                 /\ q.PartitionInput.Values = <<date>>
                 /\ q.PartitionInput.StorageDescriptor.Location =
                      StrippedBase \o <<"/", "rawtsv", "/", "hit_data", "/", "dt=", date, "/">>
           /\ \A n \in LookupNames :
                 /\ Cardinality(Stored(Catalog, TableId(n))) = 1
                 /\ \A t \in Stored(Catalog, TableId(n)) :
                       t.StorageDescriptor.Location = StrippedLookup \o <<"/", n, "/">>

\* The first run, on the empty catalog, has returned.
C13_Witness ==
    /\ prev[1] = "idle" /\ snap[1] = EmptyCatalog /\ pc[1] = "done"
    /\ s3_report_base[1] = StrippedBase
    /\ lookup_location[1] = StrippedLookup
    /\ Cardinality(partitions) = 1


(***************************************************************************)
(* C14                                                                     *)
(***************************************************************************)
\* The positions of the header fetches in a call sequence.
Fetches(cs) == { k \in DOMAIN cs : IsFetch(cs[k]) }

\* C14: a partition of date d has the header list of date d as its columns,
\* whatever columns hit_data has; the list step 4 passes to create_partition
\* is the one it has just read; and the first run on the empty catalog that
\* returns has fetched the header twice, once between the probe and the
\* creation of hit_data and once between the probe and the creation of the
\* partition.
C14_PartitionHeadersOwnDate ==
    /\ \A q \in partitions :
          q.PartitionInput.StorageDescriptor.Columns
            = ColumnsOfDate(q.PartitionInput.Values[1])
    /\ \A p \in Procs :
          pc[p] = "create_partition" =>
             /\ headers[p] = HeadersOf(s3_report_base[p], partition_date[p])
             /\ calls[p] # <<>>
             /\ IsFetch(calls[p][Len(calls[p])])
             /\ calls[p][Len(calls[p]) - 1] =
                  [op |-> "get_partition", id |-> PartitionId(partition_date[p]),
                   answer |-> "EntityNotFoundException"]
    /\ \A p \in Procs :
          (prev[p] = "idle" /\ snap[p] = EmptyCatalog /\ pc[p] = "done") =>
             /\ Cardinality(Fetches(calls[p])) = 2
             /\ \A k \in Fetches(calls[p]) :
                   /\ k > 1 /\ k < Len(calls[p])
                   /\ \/ /\ calls[p][k - 1].op = "get_table"
                         /\ calls[p][k - 1].id = TableId("hit_data")
                         /\ calls[p][k + 1].op = "create_table"
                         /\ calls[p][k + 1].id = TableId("hit_data")
                      \/ /\ calls[p][k - 1].op = "get_partition"
                         /\ calls[p][k + 1].op = "create_partition"
             /\ \E k \in Fetches(calls[p]) : calls[p][k + 1].op = "create_table"
             /\ \E k \in Fetches(calls[p]) : calls[p][k + 1].op = "create_partition"

\* A run has added a partition whose columns differ from those of hit_data,
\* created on an earlier run from another date's headers.
C14_Witness ==
    /\ pc[1] = "done"
    /\ Stored(snap[1], TableId("hit_data")) # {}
    /\ \E q \in partitions \ snap[1].partitions : \E t \in HitData :
          /\ q.PartitionInput.Values = <<partition_date[1]>>
          /\ q.PartitionInput.StorageDescriptor.Columns # t.StorageDescriptor.Columns


(***************************************************************************)
(* C15                                                                     *)
(***************************************************************************)
\* C15: under any interleaving of two invocations, the step by which an
\* invocation returns without error leaves a catalog that holds the
\* database, hit_data, the twelve lookup tables and the partition of that
\* invocation's report date, and the catalog holds them for as long as the
\* invocation stays returned.
C15_NormalReturnPostcondition ==
    /\ [][ \A p \in Procs :
             (pc[p] # "done" /\ pc'[p] = "done") =>
                /\ \E d \in databases' : d.Name = DB_NAME
                /\ \E t \in tables' : t.TableInput.Name = "hit_data"
                /\ \A k \in 1..12 :
                      \E t \in tables' : t.TableInput.Name = generic_lookup_types[k]
                /\ \E q \in partitions' :
                      q.PartitionInput.Values = <<partition_date[p]>> ]_vars
    /\ [](\A p \in Procs : pc[p] = "done" => AllExist(Catalog, partition_date[p]))

\* One invocation has returned while the other, for the other date, is in
\* the middle of its lookup tables.
C15_Witness ==
    /\ pc[1] = "done"
    /\ pc[2] = "create_table_lookup"
    /\ partition_date[1] # partition_date[2]
    /\ AllExist(Catalog, partition_date[1])


(***************************************************************************)
(* C16                                                                     *)
(***************************************************************************)
\* The step of process p that reads the header file.
FetchStep(p) ==
    /\ pc[p] \in {"get_headers_table", "get_headers_partition"}
    /\ pc'[p] # pc[p]

\* C16: every header fetch of an invocation comes right after a probe of
\* hit_data or of the partition of its date that answered "not found"; an
\* invocation that started with hit_data and the partition of its date in
\* the catalog fetches no header and ends in error only when a service call
\* failed, whatever has become of the header object.
C16_HeaderReadOnlyToCreate ==
    /\ \A p \in Procs : \A k \in Fetches(calls[p]) :
          /\ k > 1
          /\ calls[p][k - 1].answer = "EntityNotFoundException"
          /\ \/ /\ calls[p][k - 1].op = "get_table"
                /\ calls[p][k - 1].id = TableId("hit_data")
             \/ /\ calls[p][k - 1].op = "get_partition"
                /\ calls[p][k - 1].id = PartitionId(partition_date[p])
    /\ \A p \in Procs :
          ( /\ Exists(snap[p], TableId("hit_data"))
            /\ Exists(snap[p], PartitionId(partition_date[p])) )
          => /\ Fetches(calls[p]) = {}
             /\ pc[p] \notin {"get_headers_table", "get_headers_partition"}
             /\ pc[p] = "error" => err[p] = ServiceFailure
             /\ (Ended(p) /\ \A k \in DOMAIN calls[p] : calls[p][k].answer # ServiceFailure)
                   => pc[p] = "done"

\* An invocation that found hit_data and the partition of its date has
\* returned normally although the header object of that date is gone or bad.
C16_Witness ==
    /\ pc[1] = "done"
    /\ Exists(snap[1], TableId("hit_data"))
    /\ Exists(snap[1], PartitionId(partition_date[1]))
    /\ ~HeaderPresent(partition_date[1])
    /\ Len(calls[1]) = 15

(***************************************************************************)
(* C17                                                                     *)
(***************************************************************************)
\* The lookup tables that catalog cat lacks, in the order of the list.
MissingLookups(cat) ==
    LET absent(n) == ~Exists(cat, TableId(n))
        names == SelectSeq(generic_lookup_types, absent)
    IN  [i \in 1..Len(names) |-> TableId(names[i])]

\* The invocation of p has been aborted by its header.
HeaderAbort(p) == pc[p] = "error" /\ err[p] \in {"NoSuchKey", "OSError"}

\* The header abort of p came in create_glue_table (step 2), or in
\* add_hitdata_partition (step 4).
AbortInStep2(p) ==
    /\ Len(calls[p]) > 1
    /\ calls[p][Len(calls[p]) - 1].op = "get_table"
    /\ calls[p][Len(calls[p]) - 1].id = TableId("hit_data")

AbortInStep4(p) ==
    /\ Len(calls[p]) > 1
    /\ calls[p][Len(calls[p]) - 1].op = "get_partition"
    /\ calls[p][Len(calls[p]) - 1].id = PartitionId(partition_date[p])

\* C17: a fetch of a header that is missing or not gzip aborts the
\* invocation and writes nothing, and the abort undoes no earlier write.
\* An abort in step 2 comes after at most the creation of the database, with
\* no table and no partition added; on the empty catalog the database was
\* created and nothing else.  An invocation that started with hit_data
\* aborts in step 4, having created exactly the lookup tables that were
\* missing, so that all twelve exist, and without issuing create_partition.
\* An invocation that started without hit_data gets as far as step 4 only
\* when its fetch in step 2 still succeeded.
C17_HeaderAbortLeavesPartialCatalog ==
    /\ [][ \A p \in Procs :
             (FetchStep(p) /\ ~HeaderPresent(partition_date[p]))
               => /\ pc'[p] = "error"
                  /\ <<databases, tables, partitions>>' = <<databases, tables, partitions>> ]_vars
    /\ [](\A p \in Procs : HeaderAbort(p) =>
            /\ IsFetch(calls[p][Len(calls[p])])
            /\ calls[p][Len(calls[p])].answer = IF err[p] = "OSError" THEN OK ELSE err[p]
            /\ snap[p].databases \subseteq databases
            /\ snap[p].tables \subseteq tables
            /\ snap[p].partitions \subseteq partitions
            /\ AbortInStep2(p) \/ AbortInStep4(p)
            /\ AbortInStep2(p) =>
                  /\ CreateIds(calls[p]) \in {<<>>, <<DbId(DB_NAME)>>}
                  /\ tables = snap[p].tables
                  /\ partitions = snap[p].partitions
                  /\ ~Exists(Catalog, TableId("hit_data"))
            /\ (AbortInStep2(p) /\ snap[p] = EmptyCatalog) =>
                  /\ [i \in 1..Len(calls[p]) |-> calls[p][i].op] =
                       <<"get_database", "create_database", "get_table", "get_object">>
                  /\ Cardinality(databases) = 1
                  /\ tables = {}
                  /\ partitions = {}
            /\ Exists(snap[p], TableId("hit_data")) =>
                  /\ AbortInStep4(p)
                  /\ CreateIds(calls[p]) = MissingLookups(snap[p])
            /\ AbortInStep4(p) =>
                  /\ \A n \in LookupNames : Exists(Catalog, TableId(n))
                  /\ \A k \in DOMAIN calls[p] : calls[p][k].op # "create_partition"
                  /\ partitions = snap[p].partitions
                  /\ ~Exists(Catalog, PartitionId(partition_date[p]))
            /\ (AbortInStep4(p) /\ ~Exists(snap[p], TableId("hit_data"))) =>
                  \E k \in Fetches(calls[p]) :
                     /\ calls[p][k].answer = OK
                     /\ calls[p][k + 1].op = "create_table"
                     /\ calls[p][k + 1].id = TableId("hit_data"))

\* An invocation that found hit_data but not every lookup table has created
\* the missing ones and was then aborted by the missing header.
C17_Witness ==
    /\ HeaderAbort(1)
    /\ err[1] = "NoSuchKey"
    /\ Exists(snap[1], TableId("hit_data"))
    /\ Len(MissingLookups(snap[1])) > 1
    /\ CreateIds(calls[1]) = MissingLookups(snap[1])

=============================================================================
